---- MODULE Spec2Model ----
(***************************************************************************)
(* Model of the NYC taxi dashboard of src/newapp.py: the cached,           *)
(* predicate-pushdown retrieval get_filtered_df, its derivation stage and  *)
(* the script run that consumes it.                                        *)
(*                                                                         *)
(* Timestamps are minutes since Monday 2024-01-01 00:00.  A missing value  *)
(* (SQL NULL / pandas NaN) of a numeric column is the sentinel NaN; of a   *)
(* text column it is the string NoZone.                                    *)
(***************************************************************************)
EXTENDS Integers, Sequences, FiniteSets, TLC

VARIABLES
    trips,          \* rows of the remote parquet file at TRIP_URL, in scan order
    zones_csv,      \* rows of the remote csv at ZONE_URL
    zones_cache,    \* st.cache_data store of load_zones: <<>> or <<table>>
    zone_fetches,   \* number of pd.read_csv(ZONE_URL) executions
    zone_log,       \* log of the load_zones calls: "cached", "fetched" or "raised"
    df_cache,       \* st.cache_data store of get_filtered_df: key -> DataFrame
    calls,          \* log of the get_filtered_df calls: arguments and outcome
    args,           \* arguments of the current / last get_filtered_df call
    ret,            \* outcome of the last get_filtered_df call
    hit,            \* TRUE iff the last call was answered by df_cache
    query_failed,   \* TRUE iff a filter query of the last call failed
    bounds_cache,   \* st.cache_data store of get_min_max_dates: <<>> or <<bounds>>
    page,           \* what the last script run rendered
    metrics,        \* the key metrics of the last run, <<>> when none was computed
    heatmap,        \* heatmap_data of the last run: <<day, hour, Trips>> rows
    nruns,          \* script runs (or direct calls) so far
    app_df          \* filtered_df of app.py, the version that loads every row

vars == <<trips, zones_csv, zones_cache, zone_fetches, zone_log, df_cache, calls,
          args, ret, hit, query_failed, bounds_cache, page, metrics, heatmap, nruns,
          app_df>>

NaN == -1
NoZone == "<NA>"

----------------------------------------------------------------------------
(* Generic helpers on sequences *)

Range(s) == {s[i] : i \in DOMAIN s}

----------------------------------------------------------------------------
(* Constants of the program *)

PAYMENT_MAP ==
    (1 :> "Credit Card") @@ (2 :> "Cash") @@ (3 :> "No Charge") @@
    (4 :> "Dispute") @@ (5 :> "Unknown") @@ (6 :> "Voided Trip")

\* {v: k for k, v in PAYMENT_MAP.items()}: a later key wins on a repeated label
LABEL_TO_CODE ==
    [l \in {PAYMENT_MAP[k] : k \in DOMAIN PAYMENT_MAP} |->
        CHOOSE k \in DOMAIN PAYMENT_MAP :
            /\ PAYMENT_MAP[k] = l
            /\ \A k2 \in DOMAIN PAYMENT_MAP : PAYMENT_MAP[k2] = l => k2 <= k]

\* variant: the weekday names in the order a plain string sort gives
day_order_lexical ==
    <<"Friday", "Monday", "Saturday", "Sunday", "Thursday", "Tuesday", "Wednesday">>

\* line 150
day_order ==
    <<"Monday", "Tuesday", "Wednesday", "Thursday", "Friday", "Saturday", "Sunday">>

----------------------------------------------------------------------------
(* Timestamp accessors (pandas .dt.hour, .dt.day_name(); SQL EXTRACT) *)

HourOf(ts) == (ts \div 60) % 24

\* pandas day_name(): English names, Monday first; 2024-01-01 is a Monday
DayName(ts) ==
    LET names == <<"Monday", "Tuesday", "Wednesday", "Thursday", "Friday",
                   "Saturday", "Sunday">>
    IN  names[((ts \div 1440) % 7) + 1]

----------------------------------------------------------------------------
(* get_filtered_df: translation of the filter into the query *)

RECURSIVE payment_codes(_)
\* [LABEL_TO_CODE[p] for p in payment_labels if p in LABEL_TO_CODE]
payment_codes(payment_labels) ==
    IF payment_labels = <<>> THEN <<>>
    ELSE LET p == Head(payment_labels)
             rest == payment_codes(Tail(payment_labels))
         IN  IF p \in DOMAIN LABEL_TO_CODE THEN <<LABEL_TO_CODE[p]>> \o rest ELSE rest

\* zones_df[zones_df["Zone"].isin(names)]["LocationID"].dropna().astype(int).unique()
loc_ids(zones_df, selected_zone_names) ==
    {zones_df[i].LocationID : i \in {j \in DOMAIN zones_df :
                                       zones_df[j].Zone \in Range(selected_zone_names)}}
        \ {NaN}

\* variant: the zone predicate is kept although no id was resolved
HasZoneFilterUnresolved(zones_df, selected_zone_names) ==
    selected_zone_names # <<>>

\* zone_filter_sql is non-empty iff names were selected and resolve to some id
HasZoneFilter(zones_df, selected_zone_names) ==
    selected_zone_names # <<>> /\ loc_ids(zones_df, selected_zone_names) # {}

\* the fare bounds of the WHERE clause
FareOk(fare_amount) == fare_amount > 0 /\ fare_amount <= 500

\* the pickup-timestamp window of the WHERE clause: [start, end)
InWindow(ts, start_datetime, end_datetime) ==
    ts >= start_datetime /\ ts < end_datetime

\* variant: only the lower end of the hour range is sent to the query
HourBetweenFrom(ts, hour_min, hour_max) == HourOf(ts) >= hour_min

\* EXTRACT('hour' FROM tpep_pickup_datetime) BETWEEN hour_min AND hour_max
HourBetween(ts, hour_min, hour_max) ==
    HourOf(ts) >= hour_min /\ HourOf(ts) <= hour_max

\* the WHERE clause of the filter query, evaluated on one row of the file
Where(t, a, zones_df) ==
    /\ InWindow(t.tpep_pickup_datetime, a.start_datetime, a.end_datetime)
    /\ HourBetween(t.tpep_pickup_datetime, a.hour_min, a.hour_max)
    /\ t.payment_type \in Range(payment_codes(a.payment_labels))
    /\ t.trip_distance > 0
    /\ FareOk(t.fare_amount)
    /\ t.tpep_dropoff_datetime > t.tpep_pickup_datetime
    /\ (HasZoneFilter(zones_df, a.selected_zone_names)
            => t.PULocationID \in loc_ids(zones_df, a.selected_zone_names))

RECURSIVE Scan(_, _, _, _)
\* duckdb.query(sql).to_df(): the rows of the file that satisfy WHERE, in scan
\* order; "row" records which row of the file each result row came from
Scan(file, i, a, zones_df) ==
    IF i > Len(file) THEN <<>>
    ELSE LET rest == Scan(file, i + 1, a, zones_df)
         IN  IF Where(file[i], a, zones_df)
             THEN <<[row |-> i] @@ file[i]>> \o rest
             ELSE rest

----------------------------------------------------------------------------
(* get_filtered_df: derivation stage *)

\* variant: the map without the fillna, an unmapped code stays missing
PaymentLabelUnfilled(payment_type) ==
    IF payment_type \in DOMAIN PAYMENT_MAP THEN PAYMENT_MAP[payment_type]
    ELSE NoZone

\* df["payment_type"].map(PAYMENT_MAP).fillna("Other/Missing")
PaymentLabel(payment_type) ==
    IF payment_type \in DOMAIN PAYMENT_MAP THEN PAYMENT_MAP[payment_type]
    ELSE "Other/Missing"

\* pd.Categorical(values, categories=day_order, ordered=True): a value outside
\* the categories becomes missing
Categorical(v) == IF v \in Range(day_order) THEN v ELSE NoZone

\* lines 130-136: the columns computed from the two timestamps
AddTimeColumns(r) ==
    r @@ [trip_duration_minutes |-> r.tpep_dropoff_datetime - r.tpep_pickup_datetime,
          pickup_hour |-> HourOf(r.tpep_pickup_datetime),
          pickup_day_of_week |-> DayName(r.tpep_pickup_datetime),
          pickup_date |-> r.tpep_pickup_datetime \div 1440]

\* lines 147-151: payment label, then the weekday recast as an ordered category
AddLabelColumns(r) ==
    [r @@ [payment_label |-> PaymentLabel(r.payment_type)]
        EXCEPT !.pickup_day_of_week = Categorical(@)]

\* rows of zones_df[["LocationID", "Zone"]] whose key equals the left key
Matches(zones_df, key) ==
    SelectSeq(zones_df, LAMBDA z : z.LocationID = key)

\* the output rows of the left merge for one left row: one per matching right
\* row, or a single row with missing right columns when nothing matches
MergeRow(r, zones_df) ==
    LET m == Matches(zones_df, r.PULocationID)
    IN  IF m = <<>>
        THEN <<r @@ [LocationID |-> NaN, pickup_zone |-> NoZone]>>
        ELSE [k \in 1..Len(m) |->
                r @@ [LocationID |-> m[k].LocationID, pickup_zone |-> m[k].Zone]]

RECURSIVE Merge(_, _)
\* df.merge(zones_df[...], left_on="PULocationID", right_on="LocationID", how="left")
Merge(df, zones_df) ==
    IF df = <<>> THEN <<>>
    ELSE MergeRow(Head(df), zones_df) \o Merge(Tail(df), zones_df)

\* lines 126-153: derived columns, merge, payment label, ordered weekday
DeriveAll(df, zones_df) ==
    LET timed == [i \in 1..Len(df) |-> AddTimeColumns(df[i])]
        merged == Merge(timed, zones_df)
    IN  [i \in 1..Len(merged) |-> AddLabelColumns(merged[i])]

\* variant: a failed query is swallowed and an empty frame returned
BodyFallsBackToEmpty(a, zones_df, file, query_ok) ==
    IF payment_codes(a.payment_labels) = <<>>
    THEN [kind |-> "df", df |-> <<>>, issued |-> 0]
    ELSE [kind |-> "df",
          df |-> IF query_ok THEN DeriveAll(Scan(file, 1, a, zones_df), zones_df)
                 ELSE <<>>,
          issued |-> 1]

\* variant: no early return, the query runs whatever the code list is
BodyAlwaysQueries(a, zones_df, file, query_ok) ==
    IF query_ok
    THEN [kind |-> "df", df |-> DeriveAll(Scan(file, 1, a, zones_df), zones_df),
          issued |-> 1]
    ELSE [kind |-> "raise", df |-> <<>>, issued |-> 1]

\* the body of get_filtered_df, run on a cache miss.  query_ok says whether the
\* remote query succeeds; "issued" counts the executions of duckdb.query.
Body(a, zones_df, file, query_ok) ==
    IF payment_codes(a.payment_labels) = <<>>
    THEN [kind |-> "df", df |-> <<>>, issued |-> 0]
    ELSE IF query_ok
         THEN [kind |-> "df", df |-> DeriveAll(Scan(file, 1, a, zones_df), zones_df),
               issued |-> 1]
         ELSE [kind |-> "raise", df |-> <<>>, issued |-> 1]

----------------------------------------------------------------------------
(* The st.cache_data stores *)

NoEntries == [k \in {} |-> 0]

\* st.cache_data hashes the arguments by value: two timestamps, two ints and
\* two lists, a list being hashed element by element in order
CacheKey(a) ==
    <<a.start_datetime, a.end_datetime, a.hour_min, a.hour_max,
      a.payment_labels, a.selected_zone_names>>

\* variant: the returned value is not kept
CacheStoreNothing(cache, key, df) == cache

\* the decorator stores the value a call returned; a call that raised stores nothing
CacheStore(cache, key, df) == (key :> df) @@ cache

\* variant: load_zones without the st.cache_data decorator
LoadOutcomeUncached(zc, ok) == IF ok THEN "fetched" ELSE "raised"

\* What one load_zones call does, zc being the st.cache_data store when it
\* starts and ok saying whether pd.read_csv(ZONE_URL) succeeds: the stored
\* table is returned without running the body, or the body runs and either
\* returns the table or raises.
LoadOutcome(zc, ok) ==
    IF zc # <<>> THEN "cached" ELSE IF ok THEN "fetched" ELSE "raised"

\* load_zones under st.cache_data: the store after a call.  A call that
\* raised stores nothing.
load_zones(zc, ok) == IF LoadOutcome(zc, ok) = "fetched" THEN <<zones_csv>> ELSE zc

\* ... and the number of pd.read_csv executions after it
FetchesAfter(zc, n, ok) == IF LoadOutcome(zc, ok) = "cached" THEN n ELSE n + 1

RECURSIVE MinOf(_)
MinOf(S) == LET x == CHOOSE y \in S : TRUE
            IN  IF S = {x} THEN x
                ELSE LET m == MinOf(S \ {x}) IN IF x < m THEN x ELSE m

RECURSIVE MaxOf(_)
MaxOf(S) == LET x == CHOOSE y \in S : TRUE
            IN  IF S = {x} THEN x
                ELSE LET m == MaxOf(S \ {x}) IN IF x > m THEN x ELSE m

\* get_min_max_dates under st.cache_data: MIN / MAX of the pickup column
get_min_max_dates(bc) ==
    IF bc # <<>> THEN bc
    ELSE LET ts == {trips[i].tpep_pickup_datetime : i \in DOMAIN trips}
         IN  <<[min_dt |-> IF ts = {} THEN NaN ELSE MinOf(ts),
                max_dt |-> IF ts = {} THEN NaN ELSE MaxOf(ts)]>>

\* One call of the cached get_filtered_df.  zc, nf, zl: the load_zones store,
\* the fetch count and the log of load_zones calls when the call starts.  On
\* a miss the body starts with load_zones() (line 86); if that raises, so does
\* the call, before any query.
get_filtered_df(a, zone_ok, query_ok, zc, nf, zl) ==
    LET key == CacheKey(a)
    IN  IF key \in DOMAIN df_cache
        THEN /\ ret' = [kind |-> "df", df |-> df_cache[key], issued |-> 0]
             /\ hit' = TRUE
             /\ query_failed' = FALSE
             /\ zones_cache' = zc
             /\ zone_fetches' = nf
             /\ zone_log' = zl
             /\ UNCHANGED df_cache
             /\ calls' = Append(calls, [args |-> a] @@ ret')
        ELSE /\ zones_cache' = load_zones(zc, zone_ok)
             /\ zone_fetches' = FetchesAfter(zc, nf, zone_ok)
             /\ zone_log' = Append(zl, LoadOutcome(zc, zone_ok))
             /\ ret' = IF zones_cache' = <<>>
                       THEN [kind |-> "raise", df |-> <<>>, issued |-> 0]
                       ELSE Body(a, zones_cache'[1], trips, query_ok)
             /\ hit' = FALSE
             /\ query_failed' = (ret'.issued > 0 /\ ~query_ok)
             /\ df_cache' = IF ret'.kind = "df" THEN CacheStore(df_cache, key, ret'.df)
                            ELSE df_cache
             /\ calls' = Append(calls, [args |-> a] @@ ret')

----------------------------------------------------------------------------
(* The script below the call: guard, metrics, charts *)

\* variant: the guard never fires
IsEmptyNever(df) == FALSE

\* filtered_df.empty
IsEmpty(df) == Len(df) = 0

RECURSIVE SumOf(_, _)
SumOf(df, col) == IF df = <<>> THEN 0 ELSE Head(df)[col] + SumOf(Tail(df), col)

\* Series.mean(): NaN over no rows
MeanOf(df, col) == IF Len(df) = 0 THEN NaN ELSE SumOf(df, col) \div Len(df)

\* lines 231-235
KeyMetrics(df) ==
    [total_trips |-> Len(df),
     avg_fare |-> MeanOf(df, "fare_amount"),
     total_revenue |-> SumOf(df, "total_amount"),
     avg_distance |-> MeanOf(df, "trip_distance"),
     avg_duration |-> MeanOf(df, "trip_duration_minutes")]

RECURSIVE SortedSeq(_)
\* the elements of a set of integers, ascending
SortedSeq(S) == IF S = {} THEN <<>>
                ELSE LET m == MinOf(S) IN <<m>> \o SortedSeq(S \ {m})

GroupSize(df, d, h) ==
    Cardinality({i \in DOMAIN df :
                    df[i].pickup_day_of_week = d /\ df[i].pickup_hour = h})

\* filtered_df.groupby(["pickup_day_of_week", "pickup_hour"]).size()
\*     .reset_index(name="Trips")
\* Groups come sorted by the category order of the weekday, then by hour.  With
\* observed = FALSE (the default of older pandas) every category is paired
\* with every hour present; with observed = TRUE only the pairs present appear.
HeatmapData(df, observed) ==
    LET hours == SortedSeq({df[i].pickup_hour : i \in DOMAIN df})
        cell(k) ==
            LET d == day_order[((k - 1) \div Len(hours)) + 1]
                h == hours[((k - 1) % Len(hours)) + 1]
            IN  [pickup_day_of_week |-> d, pickup_hour |-> h,
                 Trips |-> GroupSize(df, d, h)]
        all == [k \in 1..(Len(day_order) * Len(hours)) |-> cell(k)]
    IN  IF observed THEN SelectSeq(all, LAMBDA g : g.Trips > 0) ELSE all

\* One run of the script with the sidebar returning the selection a.  The
\* script starts with zones = load_zones() (line 174): if that raises, the run
\* ends there, before the sidebar and before get_filtered_df.
Run(a, zone_ok, query_ok, observed) ==
    /\ IF LoadOutcome(zones_cache, zone_ok) = "raised"
       THEN /\ zone_fetches' = FetchesAfter(zones_cache, zone_fetches, zone_ok)
            /\ zone_log' = Append(zone_log, "raised")
            /\ ret' = [kind |-> "none", df |-> <<>>, issued |-> 0]
            /\ hit' = FALSE
            /\ query_failed' = FALSE
            /\ page' = "exception" /\ metrics' = <<>> /\ heatmap' = <<>>
            /\ UNCHANGED <<zones_cache, df_cache, calls, bounds_cache>>
       ELSE /\ bounds_cache' = get_min_max_dates(bounds_cache)
            /\ get_filtered_df(a, zone_ok, query_ok, load_zones(zones_cache, zone_ok),
                               FetchesAfter(zones_cache, zone_fetches, zone_ok),
                               Append(zone_log, LoadOutcome(zones_cache, zone_ok)))
            /\ IF ret'.kind = "raise"
               THEN page' = "exception" /\ metrics' = <<>> /\ heatmap' = <<>>
               ELSE IF IsEmpty(ret'.df)
                    THEN page' = "warning" /\ metrics' = <<>> /\ heatmap' = <<>>
                    ELSE /\ page' = "charts"
                         /\ metrics' = <<KeyMetrics(ret'.df)>>
                         /\ heatmap' = HeatmapData(ret'.df, observed)
    /\ args' = a
    /\ nruns' = nruns + 1
    /\ UNCHANGED <<trips, zones_csv, app_df>>

----------------------------------------------------------------------------
(* Bounded inputs *)

MaxTrips == 2       \* rows of the remote trip file
MaxRuns == 3        \* script runs of one process

Trip(pu, do, loc, dist, fare, pay) ==
    [tpep_pickup_datetime |-> pu, tpep_dropoff_datetime |-> do,
     PULocationID |-> loc, DOLocationID |-> 161,
     trip_distance |-> dist, fare_amount |-> fare, tip_amount |-> 0,
     total_amount |-> fare + 5, payment_type |-> pay]

\* Rows a trip file may hold; each but the first three breaks one predicate.
TripPool ==
    << Trip(310, 340, 132, 12, 45, 1),      \* Mon 05:10-05:40, JFK, credit card
       Trip(7170, 7200, 161, 3, 500, 2),    \* Fri 23:30-24:00, Midtown, cash, fare 500
       Trip(1440, 1450, 264, 2, 1, 1),      \* Tue 00:00, a location id of no zone
       Trip(310, 340, 132, 12, 501, 1),     \* fare above 500
       Trip(310, 340, 132, 12, 0, 1),       \* fare 0
       Trip(310, 340, 132, 0, 45, 1),       \* distance 0
       Trip(310, 310, 132, 12, 45, 1),      \* dropoff = pickup
       Trip(310, 340, 132, 12, 45, 0) >>    \* payment code 0

RECURSIVE SeqsUpTo(_, _)
SeqsUpTo(S, n) ==
    IF n = 0 THEN {<<>>}
    ELSE LET shorter == SeqsUpTo(S, n - 1)
         IN  shorter \cup {Append(q, x) : q \in shorter, x \in S}

Datasets == SeqsUpTo(Range(TripPool), MaxTrips)

Zone(id, name) == [LocationID |-> id, Zone |-> name]

ZoneTables ==
    { << Zone(132, "JFK Airport"), Zone(161, "Midtown Center") >>,
      << Zone(132, "JFK Airport"), Zone(161, "Midtown Center"),
         Zone(161, "Midtown Center") >>,                \* a line repeated in the csv
      << Zone(132, "JFK Airport"), Zone(161, "JFK Airport") >>,      \* a name shared
      << Zone(NaN, "JFK Airport"), Zone(161, "Midtown Center") >>,   \* an id missing
      << >> }

\* first and last day of the date_input, as days since 2024-01-01
DayRanges == {<<0, 0>>, <<1, 4>>}

\* values of the hour slider
HourRanges == {<<0, 23>>, <<5, 5>>}

Args(days, hours, labels, names) ==
    [start_datetime |-> days[1] * 1440,             \* pd.to_datetime(start_date)
     end_datetime |-> (days[2] + 1) * 1440,         \* ... + pd.Timedelta(days=1)
     hour_min |-> hours[1], hour_max |-> hours[2],
     payment_labels |-> labels, selected_zone_names |-> names]

\* arguments of a direct call: also labels and zone names no widget offers
CallArgs ==
    {Args(d, h, l, z) :
        d \in DayRanges \cup {<<0, 4>>}, h \in HourRanges,
        l \in {<<>>, <<"Bogus">>, <<"Credit Card">>, <<"Bogus", "Cash", "Credit Card">>},
        z \in {<<>>, <<"Nowhere">>, <<"JFK Airport">>}}

\* sorted(list(LABEL_TO_CODE.keys()))
payment_labels_all ==
    <<"Cash", "Credit Card", "Dispute", "No Charge", "Unknown", "Voided Trip">>

\* sorted(zones["Zone"].dropna().unique().tolist()), as a set
zones_list(zones_df) == {zones_df[i].Zone : i \in DOMAIN zones_df} \ {NoZone}

\* the widget values of a fresh session: the whole date range of the file,
\* hours (0, 23), every payment label, no zone
DefaultArgs(bounds) ==
    Args(<<bounds.min_dt \div 1440, bounds.max_dt \div 1440>>, <<0, 23>>,
         payment_labels_all, <<>>)

\* st.multiselect keeps the options in the order they were chosen: choosing an
\* option appends it, removing one deletes it
Toggle(selection, option) ==
    IF option \in Range(selection)
    THEN SelectSeq(selection, LAMBDA x : x # option)
    ELSE Append(selection, option)

\* the payment labels the modelled user adds or removes one at a time
ToggledLabels == {"Cash", "Credit Card"}

----------------------------------------------------------------------------
(* The dashboard process: every widget change reruns the script *)

Idle ==
    /\ zones_cache = <<>>
    /\ zone_fetches = 0
    /\ zone_log = <<>>
    /\ df_cache = NoEntries
    /\ calls = <<>>
    /\ ret = [kind |-> "none", df |-> <<>>, issued |-> 0]
    /\ hit = FALSE
    /\ query_failed = FALSE
    /\ bounds_cache = <<>>
    /\ page = "none"
    /\ metrics = <<>>
    /\ heatmap = <<>>
    /\ nruns = 0
    /\ app_df = [kind |-> "none", df |-> <<>>]

Init ==
    /\ trips = TripPool
    /\ zones_csv \in {z \in ZoneTables : Len(z) = 2}
    /\ args = DefaultArgs(get_min_max_dates(<<>>)[1])
    /\ Idle

\* the widgets can be moved once a run has got past line 174 and drawn the
\* sidebar; the zone table stays cached from then on
SidebarShown == zones_cache # <<>>

\* the script runs with the widgets as they are: first load, or a plain rerun
Rerun ==
    /\ nruns < MaxRuns
    /\ \E zone_ok \in BOOLEAN, query_ok \in BOOLEAN,
          observed \in BOOLEAN :
            Run(args, zone_ok, query_ok, observed)

\* the user adds or removes one payment type
TogglePayment ==
    /\ nruns < MaxRuns
    /\ SidebarShown
    /\ \E l \in ToggledLabels, zone_ok \in BOOLEAN, query_ok \in BOOLEAN,
          observed \in BOOLEAN :
            Run([args EXCEPT !.payment_labels = Toggle(@, l)],
                zone_ok, query_ok, observed)

\* the user clears the payment multiselect
ClearPayments ==
    /\ nruns < MaxRuns
    /\ SidebarShown
    /\ args.payment_labels # <<>>
    /\ \E zone_ok \in BOOLEAN, query_ok \in BOOLEAN,
          observed \in BOOLEAN :
            Run([args EXCEPT !.payment_labels = <<>>], zone_ok, query_ok, observed)

\* the user adds or removes one pickup zone
ToggleZone ==
    /\ nruns < MaxRuns
    /\ SidebarShown
    /\ \E z \in zones_list(zones_csv), zone_ok \in BOOLEAN, query_ok \in BOOLEAN,
          observed \in BOOLEAN :
            Run([args EXCEPT !.selected_zone_names = Toggle(@, z)],
                zone_ok, query_ok, observed)

\* the user moves the hour slider
SetHours ==
    /\ nruns < MaxRuns
    /\ SidebarShown
    /\ \E h \in HourRanges, zone_ok \in BOOLEAN, query_ok \in BOOLEAN,
          observed \in BOOLEAN :
            /\ h # <<args.hour_min, args.hour_max>>
            /\ Run([args EXCEPT !.hour_min = h[1], !.hour_max = h[2]],
                   zone_ok, query_ok, observed)

\* the user picks another date range within the bounds of the file
SetDates ==
    /\ nruns < MaxRuns
    /\ SidebarShown
    /\ \E d \in DayRanges \cup {<<0, 4>>}, zone_ok \in BOOLEAN, query_ok \in BOOLEAN,
          observed \in BOOLEAN :
            LET a == Args(d, <<args.hour_min, args.hour_max>>, args.payment_labels,
                          args.selected_zone_names)
            IN  /\ a # args
                /\ d[1] >= bounds_cache[1].min_dt \div 1440
                /\ d[2] <= bounds_cache[1].max_dt \div 1440
                /\ Run(a, zone_ok, query_ok, observed)

Next == Rerun \/ TogglePayment \/ ClearPayments \/ ToggleZone \/ SetHours \/ SetDates

Spec == Init /\ [][Next]_vars

----------------------------------------------------------------------------
(* get_filtered_df called once on a cold cache, over generated inputs *)

InitCall ==
    /\ trips \in Datasets
    /\ zones_csv \in ZoneTables
    /\ args \in CallArgs
    /\ Idle

\* The script reaches the call only after line 174 has loaded the zone table,
\* so the zone source answers here.
Call ==
    /\ nruns = 0
    /\ \E query_ok \in BOOLEAN :
            get_filtered_df(args, TRUE, query_ok, zones_cache, zone_fetches, zone_log)
    /\ nruns' = 1
    /\ UNCHANGED <<trips, zones_csv, args, bounds_cache, page, metrics, heatmap,
                   app_df>>

\* lines 344-348 applied to the rows the call returned
Group ==
    /\ nruns = 1
    /\ ret.kind = "df"
    /\ ~IsEmpty(ret.df)
    /\ heatmap = <<>>
    /\ \E observed \in BOOLEAN : heatmap' = HeatmapData(ret.df, observed)
    /\ UNCHANGED <<trips, zones_csv, zones_cache, zone_fetches, zone_log, df_cache,
                   calls, args, ret, hit, query_failed, bounds_cache, page, metrics,
                   nruns, app_df>>

NextCall == Call \/ Group

SpecCall == InitCall /\ [][NextCall]_vars

----------------------------------------------------------------------------
(* The derivation stage (lines 126-153) applied to a frame holding every row
   of a file, whatever its payment codes *)

DerivePool ==
    Range(TripPool) \cup {Trip(310, 340, 132, 12, 45, c) : c \in {NaN, 3, 4, 5, 6, 7}}

InitDerive ==
    /\ trips \in SeqsUpTo(DerivePool, MaxTrips)
    /\ zones_csv \in ZoneTables
    /\ args \in {Args(<<0, 4>>, <<0, 23>>, payment_labels_all, <<>>)}
    /\ Idle

DeriveStage ==
    /\ nruns = 0
    /\ ret' = [kind |-> "df",
               df |-> DeriveAll([i \in DOMAIN trips |-> [row |-> i] @@ trips[i]],
                                zones_csv),
               issued |-> 0]
    /\ nruns' = 1
    /\ UNCHANGED <<trips, zones_csv, zones_cache, zone_fetches, zone_log, df_cache,
                   calls, args, hit, query_failed, bounds_cache, page, metrics, heatmap,
                   app_df>>

NextDerive == DeriveStage

SpecDerive == InitDerive /\ [][NextDerive]_vars

----------------------------------------------------------------------------
(* app.py: the version that loads every row of the file, cleans it in memory
   and filters the cleaned frame with the sidebar values *)

\* df.dropna(subset=[pickup, dropoff, PULocationID, DOLocationID, fare_amount])
NotMissing(t) ==
    /\ t.tpep_pickup_datetime # NaN
    /\ t.tpep_dropoff_datetime # NaN
    /\ t.PULocationID # NaN
    /\ t.DOLocationID # NaN
    /\ t.fare_amount # NaN

\* the boolean mask of the cleaning step
CleanMask(t) ==
    /\ t.trip_distance > 0
    /\ t.fare_amount > 0
    /\ t.fare_amount <= 500
    /\ t.tpep_dropoff_datetime > t.tpep_pickup_datetime

RECURSIVE CleanRows(_, _)
\* the rows of the file left by dropna and the mask, in file order; "row"
\* records which row of the file each one is
CleanRows(file, i) ==
    IF i > Len(file) THEN <<>>
    ELSE LET rest == CleanRows(file, i + 1)
         IN  IF NotMissing(file[i]) /\ CleanMask(file[i])
             THEN <<[row |-> i] @@ file[i]>> \o rest
             ELSE rest

\* trip_duration_minutes, trip_speed_mph, pickup_hour, pickup_day_of_week
AppTimeColumns(r) ==
    LET minutes == r.tpep_dropoff_datetime - r.tpep_pickup_datetime
    IN  r @@ [trip_duration_minutes |-> minutes,
              trip_speed_mph |-> IF minutes = 0 THEN NaN
                                 ELSE (r.trip_distance * 60) \div minutes,
              pickup_hour |-> HourOf(r.tpep_pickup_datetime),
              pickup_day_of_week |-> DayName(r.tpep_pickup_datetime)]

\* the payment_map dict local to load_data
payment_map ==
    (1 :> "Credit Card") @@ (2 :> "Cash") @@ (3 :> "No Charge") @@
    (4 :> "Dispute") @@ (5 :> "Unknown") @@ (6 :> "Voided Trip")

\* payment_label with fillna("Other/Missing"), pickup_date, ordered weekday
AppLabelColumns(r) ==
    [r @@ [payment_label |-> IF r.payment_type \in DOMAIN payment_map
                             THEN payment_map[r.payment_type]
                             ELSE "Other/Missing",
           pickup_date |-> r.tpep_pickup_datetime \div 1440]
        EXCEPT !.pickup_day_of_week = Categorical(@)]

\* load_data(): every row of the file, cleaned, with the derived columns and
\* the zone name merged in on PULocationID
load_data(file, zones_df) ==
    LET timed == [r \in DOMAIN CleanRows(file, 1) |->
                    AppTimeColumns(CleanRows(file, 1)[r])]
        merged == Merge(timed, zones_df)
    IN  [i \in 1..Len(merged) |-> AppLabelColumns(merged[i])]

\* the in-memory sidebar filter: date window, hour range and payment labels,
\* then, when zones are selected, pickup_zone.isin(selected_zones)
filtered_df(df, a) ==
    LET masked == SelectSeq(df, LAMBDA r :
                    /\ r.tpep_pickup_datetime >= a.start_datetime
                    /\ r.tpep_pickup_datetime < a.end_datetime
                    /\ r.pickup_hour >= a.hour_min
                    /\ r.pickup_hour <= a.hour_max
                    /\ r.payment_label \in Range(a.payment_labels))
    IN  IF a.selected_zone_names # <<>>
        THEN SelectSeq(masked, LAMBDA r : r.pickup_zone \in Range(a.selected_zone_names))
        ELSE masked

----------------------------------------------------------------------------
(* Both versions given the same file, zone table and sidebar selection *)

\* Rows of a trip file: two clean trips, one without a drop-off location id,
\* one without a pick-up location id, one with a fare above the cap
ComparePool ==
    { Trip(310, 340, 132, 12, 45, 1),
      Trip(7170, 7200, 161, 3, 500, 2),
      [Trip(310, 340, 132, 12, 45, 1) EXCEPT !.DOLocationID = NaN],
      [Trip(7170, 7200, 161, 3, 500, 2) EXCEPT !.PULocationID = NaN],
      Trip(310, 340, 132, 12, 501, 1) }

\* what the zone multiselect of newapp.py can return: no name, or names of
\* zones_list in the order they were chosen
ZoneSelections(names) ==
    {<<>>} \cup {<<n>> : n \in names}
           \cup {q \in {<<n, m>> : n, m \in names} : q[1] # q[2]}

\* what the sidebar of newapp.py can return for a file with the given bounds:
\* a date range within [min_date, max_date], an hour range, payment labels
\* among LABEL_TO_CODE, zone names of the zone table
SidebarArgs(bounds, zones_df) ==
    LET first == bounds.min_dt \div 1440
        last == bounds.max_dt \div 1440
    IN  {Args(d, h, l, z) :
            d \in {<<first, last>>} \cup
                  {r \in DayRanges : r[1] >= first /\ r[2] <= last},
            h \in HourRanges,
            l \in {<<>>, <<"Credit Card">>, payment_labels_all},
            z \in ZoneSelections(zones_list(zones_df))}

InitBoth ==
    /\ trips \in SeqsUpTo(ComparePool, MaxTrips) \ {<<>>}
    /\ zones_csv \in ZoneTables
    /\ args \in SidebarArgs(get_min_max_dates(<<>>)[1], zones_csv)
    /\ Idle

\* app.py runs once: load_data(), then the sidebar filter
AppRun ==
    /\ app_df.kind = "none"
    /\ app_df' = [kind |-> "df", df |-> filtered_df(load_data(trips, zones_csv), args)]
    /\ UNCHANGED <<trips, zones_csv, zones_cache, zone_fetches, zone_log, df_cache,
                   calls, args, ret, hit, query_failed, bounds_cache, page, metrics,
                   heatmap, nruns>>

NextBoth == Call \/ AppRun

SpecBoth == InitBoth /\ [][NextBoth]_vars

----------------------------------------------------------------------------
(* Vocabulary of the properties, stated without the operators above *)

SixLabels ==
    <<"Credit Card", "Cash", "No Charge", "Dispute", "Unknown", "Voided Trip">>

Calendar ==
    <<"Monday", "Tuesday", "Wednesday", "Thursday", "Friday", "Saturday", "Sunday">>

\* codes of the selected labels that are among the six mapped ones
SelectedCodes(a) == {c \in 1..6 : SixLabels[c] \in Range(a.payment_labels)}

\* location ids the selected zone names resolve to in the zone table
ResolvedIds(a) ==
    {z.LocationID : z \in {y \in Range(zones_csv) :
                              y.Zone \in Range(a.selected_zone_names)}} \ {NaN}

\* the trip t satisfies every predicate of the filter a
Satisfies(t, a) ==
    /\ a.start_datetime <= t.tpep_pickup_datetime
    /\ t.tpep_pickup_datetime < a.end_datetime
    /\ a.hour_min <= (t.tpep_pickup_datetime \div 60) % 24
    /\ (t.tpep_pickup_datetime \div 60) % 24 <= a.hour_max
    /\ t.payment_type \in SelectedCodes(a)
    /\ t.trip_distance > 0
    /\ 0 < t.fare_amount /\ t.fare_amount <= 500
    /\ t.tpep_dropoff_datetime > t.tpep_pickup_datetime
    /\ (ResolvedIds(a) # {} => t.PULocationID \in ResolvedIds(a))

\* how many rows of the returned frame come from row i of the file
Returned(i) == Cardinality({k \in DOMAIN ret.df : ret.df[k].row = i})

\* the zone table has no two rows with the same location id
UniqueZoneIds ==
    \A i, j \in DOMAIN zones_csv :
        zones_csv[i].LocationID = zones_csv[j].LocationID => i = j

----------------------------------------------------------------------------
(* C1: with at least one mapped payment label selected, get_filtered_df
   returns every trip that satisfies all the predicates exactly once, and no
   other trip. *)
C1_ExactlyTheMatchingTrips ==
    (ret.kind = "df" /\ SelectedCodes(args) # {}) =>
        \A i \in DOMAIN trips :
            Returned(i) = IF Satisfies(trips[i], args) THEN 1 ELSE 0

\* the same statement about the set of trips returned, multiplicity aside
MatchingTripsAsSet ==
    (ret.kind = "df" /\ SelectedCodes(args) # {}) =>
        \A i \in DOMAIN trips : (Returned(i) >= 1) <=> Satisfies(trips[i], args)

\* ... and the exact statement when the zone table has unique location ids
MatchingTripsUniqueIds == UniqueZoneIds => C1_ExactlyTheMatchingTrips

(* C2: when no selected payment label is a mapped one, the call returns an
   empty row set and issues no query against the trip source, whatever the
   other filter fields are. *)
C2_NoCodesNoQuery ==
    (calls # <<>> /\ SelectedCodes(args) = {}) =>
        /\ ret.kind = "df"
        /\ ret.df = <<>>
        /\ ret.issued = 0
        /\ \A k \in DOMAIN calls : calls[k].issued = 0

C2_Witness ==
    /\ calls # <<>>
    /\ args.payment_labels = <<"Bogus">>
    /\ args.selected_zone_names # <<>>
    /\ Len(trips) > 0
    /\ ret.df = <<>>

(* C5: the derivation stage never changes the row count: the frame returned
   has as many rows as the query retrieved, every retrieved row appears once,
   and a row whose pickup location id matches no zone is kept with a missing
   pickup_zone. *)
C5_DeriveKeepsRowCount ==
    (ret.kind = "df" /\ ret.issued = 1) =>
        LET raw == Scan(trips, 1, args, zones_csv)
        IN  /\ Len(ret.df) = Len(raw)
            /\ \A k \in DOMAIN raw : Returned(raw[k].row) = 1
            /\ \A k \in DOMAIN ret.df :
                  (\A z \in Range(zones_csv) : z.LocationID # ret.df[k].PULocationID)
                      => ret.df[k].pickup_zone = NoZone

\* the same statement for zone tables with unique location ids
RowCountUniqueIds == UniqueZoneIds => C5_DeriveKeepsRowCount

\* a retrieved row of no zone is kept, its pickup_zone missing
UnmatchedRowKept ==
    /\ ret.kind = "df"
    /\ \E k \in DOMAIN ret.df : ret.df[k].PULocationID = 264 /\ ret.df[k].pickup_zone = NoZone

\* the label the payment table of the design gives a code
ExpectedLabel(c) == IF c \in 1..6 THEN SixLabels[c] ELSE "Other/Missing"

(* C6: the payment label is a total function of the payment code: 1..6 map
   to Credit Card, Cash, No Charge, Dispute, Unknown, Voided Trip, any other
   code and a missing code map to "Other/Missing", and the label-to-code map
   is the inverse of the code-to-label map on the six codes. *)
C6_PaymentLabelTotal ==
    /\ \A k \in DOMAIN ret.df :
          ret.df[k].payment_label = ExpectedLabel(ret.df[k].payment_type)
    /\ DOMAIN PAYMENT_MAP = 1..6
    /\ DOMAIN LABEL_TO_CODE = Range(SixLabels)
    /\ \A c \in 1..6 : PAYMENT_MAP[c] = SixLabels[c] /\ LABEL_TO_CODE[SixLabels[c]] = c
    /\ \A c \in 1..6 : payment_codes(<<"Bogus", SixLabels[c]>>) = <<c>>

C6_Witness ==
    /\ ret.kind = "df"
    /\ \E k, l \in DOMAIN ret.df :
          /\ ret.df[k].payment_type = NaN /\ ret.df[k].payment_label = "Other/Missing"
          /\ ret.df[l].payment_type = 6 /\ ret.df[l].payment_label = "Voided Trip"

(* C7: when a non-empty zone selection resolves to no location id, the zone
   predicate is dropped: the call returns the rows the same filter with an
   empty zone selection returns. *)
C7_UnresolvedZonesDropFilter ==
    (ret.kind = "df" /\ args.selected_zone_names # <<>> /\ ResolvedIds(args) = {}) =>
        ret.df = Body([args EXCEPT !.selected_zone_names = <<>>],
                      zones_csv, trips, TRUE).df

C7_Witness ==
    /\ ret.kind = "df"
    /\ args.selected_zone_names = <<"Nowhere">>
    /\ zones_csv # <<>>
    /\ Len(ret.df) = 2

CalendarIndex(d) == CHOOSE i \in 1..7 : Calendar[i] = d

(* C9: the weekday of every derived row is the weekday of its pickup
   timestamp, one of Monday..Sunday, and the rows of the weekday/hour grouping
   come in calendar order Monday, ..., Sunday whatever the order of the input
   rows. *)
C9_WeekdayCalendarOrder ==
    /\ \A k \in DOMAIN ret.df :
          ret.df[k].pickup_day_of_week =
              Calendar[((ret.df[k].tpep_pickup_datetime \div 1440) % 7) + 1]
    /\ \A i, j \in DOMAIN heatmap :
          i < j => CalendarIndex(heatmap[i].pickup_day_of_week)
                      <= CalendarIndex(heatmap[j].pickup_day_of_week)
    /\ heatmap # <<>> =>
          \A k \in DOMAIN ret.df : \E g \in DOMAIN heatmap :
              /\ heatmap[g].pickup_day_of_week = ret.df[k].pickup_day_of_week
              /\ heatmap[g].pickup_hour = ret.df[k].pickup_hour
              /\ heatmap[g].Trips >= 1

\* a Friday trip precedes a Monday trip in the file, and both are grouped
C9_Witness ==
    /\ Len(trips) = 2
    /\ trips[1].tpep_pickup_datetime = 7170
    /\ trips[2].tpep_pickup_datetime = 310
    /\ \E i, j \in DOMAIN heatmap :
          /\ i < j
          /\ heatmap[i].pickup_day_of_week = "Monday" /\ heatmap[i].Trips = 1
          /\ heatmap[j].pickup_day_of_week = "Friday" /\ heatmap[j].Trips = 1

----------------------------------------------------------------------------
(* Properties of the process: cache, guard and failure *)

\* executions of the filter query for the arguments a, over the whole log
RECURSIVE QueriesFor(_, _)
QueriesFor(a, log) ==
    IF log = <<>> THEN 0
    ELSE (IF Head(log).args = a THEN Head(log).issued ELSE 0) + QueriesFor(a, Tail(log))

\* ... and those of them that succeeded
RECURSIVE AnsweredFor(_, _)
AnsweredFor(a, log) ==
    IF log = <<>> THEN 0
    ELSE (IF Head(log).args = a /\ Head(log).kind = "df" THEN Head(log).issued ELSE 0)
            + AnsweredFor(a, Tail(log))

\* a call repeating the arguments of an earlier successful call returns the
\* same rows and issues no query
ReplayedFromCache ==
    \A i, j \in DOMAIN calls :
        (i < j /\ calls[i].args = calls[j].args /\ calls[i].kind = "df") =>
            /\ calls[j].kind = "df"
            /\ calls[j].df = calls[i].df
            /\ calls[j].issued = 0

(* C3, as stated: a call equal by value to an earlier successful call returns
   an equal result without a remote retrieval, and the remote trip query is
   executed at most once per distinct filter specification. *)
C3_QueryAtMostOncePerSpec ==
    /\ ReplayedFromCache
    /\ \A i \in DOMAIN calls : QueriesFor(calls[i].args, calls) <= 1

(* C3, amended: a call equal by value to an earlier successful call returns
   an equal result without a remote retrieval, and the remote trip query is
   answered at most once per distinct filter specification; a query that
   failed is not cached and runs again on the next call. *)
C3_AnsweredAtMostOncePerSpec ==
    /\ ReplayedFromCache
    /\ \A i \in DOMAIN calls : AnsweredFor(calls[i].args, calls) <= 1

C3_Witness ==
    \E i, j \in DOMAIN calls :
        /\ i < j
        /\ calls[i].args = calls[j].args
        /\ calls[i].issued = 1 /\ calls[i].kind = "df" /\ calls[i].df # <<>>
        /\ calls[j].issued = 0 /\ calls[j].df = calls[i].df
        /\ \E k \in DOMAIN calls : calls[k].kind = "raise"

\* the two filters agree on dates and hours, and select the same labels and
\* the same zone names, in whatever order
SameSelection(a, b) ==
    /\ a.start_datetime = b.start_datetime /\ a.end_datetime = b.end_datetime
    /\ a.hour_min = b.hour_min /\ a.hour_max = b.hour_max
    /\ Range(a.payment_labels) = Range(b.payment_labels)
    /\ Range(a.selected_zone_names) = Range(b.selected_zone_names)

(* C4: the cache key compares payment labels and zone names as sets: a call
   whose filter selects the same labels and zones as an earlier successful
   call, in another order, is served from the cache without a remote query. *)
C4_SelectionOrderIgnored ==
    \A i, j \in DOMAIN calls :
        (/\ i < j
         /\ calls[i].kind = "df" /\ calls[j].kind = "df"
         /\ SameSelection(calls[i].args, calls[j].args))
            => calls[j].issued = 0

(* C8: whenever the call returns zero rows, the all-payment-types-deselected
   case included, the script warns and stops: no metric and no grouping is
   computed over an empty row set. *)
C8_EmptyResultStopsRendering ==
    /\ (ret.kind = "df" /\ ret.df = <<>>) =>
          page = "warning" /\ metrics = <<>> /\ heatmap = <<>>
    /\ page = "charts" => ret.kind = "df" /\ Len(ret.df) > 0
    /\ metrics # <<>> => metrics[1].total_trips > 0 /\ metrics[1].avg_fare # NaN
    /\ heatmap # <<>> => \A g \in DOMAIN heatmap : heatmap[g].Trips <= Len(ret.df)

\* a query that matched no trip, after a run that rendered charts
C8_Witness ==
    /\ page = "warning"
    /\ ret.issued = 1 /\ ret.kind = "df" /\ ret.df = <<>>
    /\ \E k \in DOMAIN calls : calls[k].df # <<>>

\* every payment type deselected: the warning, without a query
DeselectedWarns ==
    /\ page = "warning"
    /\ args.payment_labels = <<>>
    /\ ret.issued = 0 /\ ~hit

(* C10: a failed remote query is propagated to the caller without a retry,
   no earlier or partial row set is returned in its place, and no metric or
   chart is rendered for that run. *)
C10_QueryFailurePropagates ==
    query_failed =>
        /\ ret.kind = "raise"
        /\ ret.issued = 1
        /\ ret.df = <<>>
        /\ CacheKey(args) \notin DOMAIN df_cache
        /\ page = "exception"
        /\ metrics = <<>>
        /\ heatmap = <<>>

\* the failure follows a run that rendered charts
C10_Witness ==
    /\ query_failed
    /\ page = "exception"
    /\ \E k \in DOMAIN calls : calls[k].kind = "df" /\ calls[k].df # <<>>

\* The load_zones calls that ran the body and got the table
FetchedAt == {i \in DOMAIN zone_log : zone_log[i] = "fetched"}

\* C11: over the reruns and get_filtered_df calls of one process the zone
\* table is fetched once: every load_zones call after the first one that
\* succeeded, those on line 86 inside get_filtered_df included, is answered from
\* the cache without running pd.read_csv; so at most one call ever fetched the
\* table, exactly one once the table is held, and pd.read_csv ran only for the
\* calls that were not answered from the cache.
C11_ZonesFetchedOnce ==
    /\ \A i \in FetchedAt : \A j \in DOMAIN zone_log : j > i => zone_log[j] = "cached"
    /\ Cardinality(FetchedAt) <= 1
    /\ zones_cache # <<>> => Cardinality(FetchedAt) = 1 /\ zones_cache = <<zones_csv>>
    /\ zone_fetches = Cardinality({i \in DOMAIN zone_log : zone_log[i] # "cached"})

\* a failed fetch, then a run that fetched the table at line 174 and whose
\* get_filtered_df body found it cached at line 86, then a run whose two
\* load_zones calls both came from the cache
C11_Witness ==
    /\ zone_log = <<"raised", "fetched", "cached", "cached", "cached">>
    /\ zone_fetches = 2
    /\ Len(calls) = 2
    /\ nruns = 3

\* C12: every row get_filtered_df returns has derived columns that agree with
\* the filter that selected it: trip_duration_minutes is strictly positive,
\* pickup_hour is an integer of 0..23 lying within [hour_min, hour_max], and
\* payment_label is one of the selected labels, so never "Other/Missing".
C12_DerivedColumnsMatchFilter ==
    ret.kind = "df" =>
        \A k \in DOMAIN ret.df :
            /\ ret.df[k].trip_duration_minutes > 0
            /\ ret.df[k].pickup_hour \in 0..23
            /\ args.hour_min <= ret.df[k].pickup_hour
            /\ ret.df[k].pickup_hour <= args.hour_max
            /\ ret.df[k].payment_label \in Range(args.payment_labels)
            /\ ret.df[k].payment_label # "Other/Missing"

\* hours (5, 5) and a selection holding an unmapped label: the 05:10 trip is
\* returned while the file also holds the 23:30 trip the hour range excludes
C12_Witness ==
    /\ ret.kind = "df"
    /\ Len(ret.df) >= 1
    /\ args.hour_min = 5 /\ args.hour_max = 5
    /\ "Bogus" \in Range(args.payment_labels)
    /\ \E i \in DOMAIN trips :
            /\ HourOf(trips[i].tpep_pickup_datetime) = 23
            /\ Satisfies(trips[i], [args EXCEPT !.hour_min = 0, !.hour_max = 23])

\* the trips of the file a frame holds rows of
TripsOf(df) == {df[k].row : k \in DOMAIN df}

\* no row of the file lacks a pick-up or drop-off location id
LocationIdsPresent ==
    \A i \in DOMAIN trips : trips[i].PULocationID # NaN /\ trips[i].DOLocationID # NaN

\* C13: for every trip file and every selection the sidebar of newapp.py can
\* produce, the set of trips get_filtered_df of newapp.py returns equals the
\* set of trips app.py keeps after load_data's cleaning and its in-memory
\* sidebar filter.
C13_PushdownEquivalent ==
    (ret.kind = "df" /\ app_df.kind = "df") => TripsOf(ret.df) = TripsOf(app_df.df)

\* the two versions agree when every trip has its location ids and the zone
\* names selected, if any, resolve to some location id
PushdownEquivalentOnCompleteData ==
    (/\ ret.kind = "df" /\ app_df.kind = "df"
     /\ LocationIdsPresent
     /\ (args.selected_zone_names # <<>>
            => loc_ids(zones_csv, args.selected_zone_names) # {}))
        => TripsOf(ret.df) = TripsOf(app_df.df)

\* ... and then both keep a trip under a zone selection
BothKeepATrip ==
    /\ ret.kind = "df" /\ app_df.kind = "df"
    /\ LocationIdsPresent
    /\ args.selected_zone_names # <<>>
    /\ TripsOf(ret.df) # {}
    /\ TripsOf(ret.df) = TripsOf(app_df.df)
    /\ TripsOf(ret.df) # DOMAIN trips

====
